---- MODULE Spec2Model ----
(***************************************************************************)
(* Model of github-renovate-updater: the organization crawl                *)
(* (FindReposWithRenovate), the per-repository update workflow             *)
(* (CheckAndUpdateRenovateConfig), the git publisher (createSignedCommit)  *)
(* and the driver (main).  One action per API call or external command;    *)
(* the control flow between two calls is part of the action of the first.  *)
(***************************************************************************)
EXTENDS Integers, Sequences, FiniteSets, TLC

(* ------------------------------ bounds -------------------------------- *)
MaxPages == 2
MaxClock == 2
MaxFaults == 2
\* fragments per renovate.json text in the specification of the rewriting
MaxPieces == 3

(* ------------------------- program constants -------------------------- *)
StatusOK == 200
StatusNotFound == 404
StatusForbidden == 403
RateFull == 5000
\* the exit status of a Go process that ends in a panic
ExitPanic == 2

\* the organization's repositories, in the order the listing returns them
AllReposSeq == <<"A", "B">>
Repos == { AllReposSeq[i] : i \in 1..Len(AllReposSeq) }
NoRepo == ""

(* strings are sequences of one-character strings *)
Marker == <<"g","i","t","h","u","b",">","M","y","O","r","g","/">>
Replacement == <<"g","i","t","h","u","b",">","M","y","O","t","h","e","r","O","r","g","/">>
BranchName == "update-renovate-config"
paths == <<"renovate.json", ".github/renovate.json">>
WorkflowPath == "renovate.json"

(* --------------------------- pure functions --------------------------- *)
\* strings.Contains / strings.Index: does sub occur in s at offset i (1-based)
MatchAt(s, sub, i) ==
    /\ i + Len(sub) - 1 <= Len(s)
    /\ \A k \in 1..Len(sub) : s[i + k - 1] = sub[k]

Contains(s, sub) == \E i \in 1..(Len(s) + 1) : MatchAt(s, sub, i)

\* strings.ReplaceAll for a non-empty old: leftmost, non-overlapping
RECURSIVE ReplaceFrom(_, _, _, _)
ReplaceFrom(s, old, new, i) ==
    IF i > Len(s) THEN <<>>
    ELSE IF MatchAt(s, old, i)
         THEN new \o ReplaceFrom(s, old, new, i + Len(old))
         ELSE <<s[i]>> \o ReplaceFrom(s, old, new, i + 1)

\* faulty variant: only the leftmost occurrence is replaced (strings.Replace, n = 1)
ReplaceFirst(s, old, new) ==
    IF ~Contains(s, old) THEN s
    ELSE LET i == CHOOSE k \in 1..Len(s) :
                    /\ MatchAt(s, old, k)
                    /\ \A m \in 1..(k - 1) : ~MatchAt(s, old, m)
         IN SubSeq(s, 1, i - 1) \o new \o SubSeq(s, i + Len(old), Len(s))

ReplaceAll(s, old, new) == ReplaceFrom(s, old, new, 1)

(* --------------------------- the remote side -------------------------- *)
Lib == <<"l","i","b">>

\* the fragments a renovate.json is put together from: the marker, the
\* replacement, the two halves of the marker, a marker in another case, other text
Pieces == <<
    <<>>,
    Marker,
    Replacement,
    <<"g","i","t","h","u","b",">","M","y">>,
    <<"O","r","g","/">>,
    <<"g","i","t","h","u","b",">","m","y","o","r","g","/">>,
    Lib >>

\* the n-th text of k fragments (n is read as k digits to the base Len(Pieces))
RECURSIVE TextOf(_, _)
TextOf(n, k) ==
    IF k = 0 THEN <<>>
    ELSE Pieces[(n % Len(Pieces)) + 1] \o TextOf(n \div Len(Pieces), k - 1)

RECURSIVE Power(_, _)
Power(b, k) == IF k = 0 THEN 1 ELSE b * Power(b, k - 1)

\* every text of at most MaxPieces fragments, as a file the contents API returns
ExtraFiles ==
    [n \in 1..Power(Len(Pieces), MaxPieces) |->
        [type |-> "file", encoding |-> "base64", text |-> TextOf(n - 1, MaxPieces)]]

\* what a repository may hold at a candidate path (0 = nothing): files, and
\* a directory of that name, for which GetContents succeeds with no file content
ConfigFiles == <<
    [type |-> "file", encoding |-> "base64", text |-> Marker \o Lib],
    [type |-> "file", encoding |-> "base64", text |-> Replacement \o Lib],
    [type |-> "file", encoding |-> "none",   text |-> <<>>],
    [type |-> "dir",  encoding |-> "",       text |-> <<>>] >> \o ExtraFiles

\* GetContents returns fileContent == nil for a directory
IsDir(id) == ConfigFiles[id].type = "dir"

NoFile == 0

\* what a repository may hold at <<root path, nested path>>
RepoKinds == { <<0, 0>>, <<1, 0>>, <<2, 0>>, <<3, 0>>, <<4, 0>>, <<0, 1>>, <<0, 2>> }

\* RepositoryContent.GetContent of go-github: the decoded text, or an error
GetContent(f) ==
    IF f.encoding = "base64" \/ f.encoding = ""
    THEN [ok |-> TRUE, text |-> f.text]
    ELSE [ok |-> FALSE, text |-> <<>>]

Branches == {"main", "develop"}
\* the default branch carried by the repository object of the listing
ListedDefaultBranch == "main"

(* ------------------------------- state -------------------------------- *)
VARIABLES
    githubToken, \* flag -token ("" = not given)
    dryRun,      \* flag -dry-run
    gpgKeyID,    \* flag -gpg-key ("" = unsigned)
    repoName,    \* flag -repo ("" = not given: organization-wide run)
    orgPages,    \* the organization's listing, page by page
    files,       \* what each repository holds at the two candidate paths
    pc,          \* the program's position: the next call it makes
    now,         \* the clock, advanced by time.Sleep
    page,        \* opts.Page
    repos,       \* the repositories of the page being probed
    nextPage,    \* resp.NextPage of the page being probed
    repoIdx,     \* position in repos
    pathIdx,     \* position in paths
    allRepos,    \* the crawl's result
    procIdx,     \* position of main's loop in the crawl's result
    cur,         \* the repository the workflow runs for
    newContent,  \* the bytes handed to createSignedCommit
    defaultBranch, \* the default branch the workflow resolved
    tempDir,     \* does the temporary workspace exist
    gitLog,      \* the steps createSignedCommit has run in the current call
    remote,      \* per repository: the pushed branch, or none
    pulls,       \* the pull requests requested and created
    lastCall,    \* the most recent API call and its response
    listCalls,   \* number of ListByOrg calls
    listWaits,   \* number of rate-limit waits on a page listing
    pageProbes,  \* per page: how many times its repositories were probed
    probes,      \* per repository: the candidate paths probed, in order
    errLog,      \* did the last call log an "Error checking <path> in <repo>" line
    wf,          \* per repository: what the workflow did
    runs,        \* the repositories the workflow was started for, in order
    exitCode,    \* -1 while running, then the process's exit status
    faults       \* number of failed calls and commands so far

envVars == <<githubToken, dryRun, gpgKeyID, repoName, orgPages, files>>
gitVars == <<newContent, defaultBranch, tempDir, gitLog>>
remoteVars == <<remote, pulls>>
vars == <<githubToken, dryRun, gpgKeyID, repoName, orgPages, files, pc, now, page, repos,
          nextPage, repoIdx, pathIdx, allRepos, procIdx, cur, newContent,
          defaultBranch, tempDir, gitLog, remote, pulls, lastCall, listCalls, listWaits,
          pageProbes, probes, errLog, wf, runs, exitCode, faults>>

(* ---------------------------- environment ----------------------------- *)
Pos(r) == CHOOSE i \in 1..Len(AllReposSeq) : AllReposSeq[i] = r

PageOfLayout(pageOf, n) ==
    [k \in 1..n |-> SelectSeq(AllReposSeq, LAMBDA r : pageOf[r] = k)]

\* listings: the repositories in order, cut into 1..MaxPages pages
Layouts ==
    { PageOfLayout(pageOf, n) :
        <<pageOf, n>> \in
          { pn \in [Repos -> 1..MaxPages] \X (1..MaxPages) :
              /\ \A r \in Repos : pn[1][r] <= pn[2]
              /\ \A r1, r2 \in Repos : Pos(r1) <= Pos(r2) => pn[1][r1] <= pn[1][r2] } }

OnePage == <<AllReposSeq>>

FileAt(r, path) == IF path = paths[1] THEN files[r].root ELSE files[r].nested

Exists(r, path) == FileAt(r, path) # NoFile

HasMarker(id) ==
    /\ id # NoFile
    /\ ~IsDir(id)
    /\ GetContent(ConfigFiles[id]).ok
    /\ Contains(GetContent(ConfigFiles[id]).text, Marker)

\* the server's answer to a listing at cursor p (0 and 1 both name the first page)
ServerPage(p) == IF p = 0 THEN 1 ELSE p
ServerNext(p) == IF ServerPage(p) < Len(orgPages) THEN ServerPage(p) + 1 ELSE 0

\* rate-limit metadata of a response: <<remaining, reset - now>>
Rates == { <<RateFull, 1>>, <<0, 1>>, <<0, -1>> }

NoResp == [err |-> FALSE, nil |-> TRUE, status |-> 0, remaining |-> 0,
           wait |-> 0, has404 |-> FALSE]

\* a response that carries rate-limit metadata
Resp(e, st, rem, w, h) ==
    [err |-> e, nil |-> FALSE, status |-> st, remaining |-> rem, wait |-> w,
     has404 |-> h]

\* a call that failed before any response arrived (resp == nil)
NetErrs == { [err |-> TRUE, nil |-> TRUE, status |-> 0, remaining |-> 0,
              wait |-> 0, has404 |-> h] : h \in BOOLEAN }

OkResps == { Resp(FALSE, StatusOK, rt[1], rt[2], FALSE) : rt \in Rates }
NotFoundResps == { Resp(TRUE, StatusNotFound, rt[1], rt[2], TRUE) : rt \in Rates }
FailResps == { Resp(TRUE, StatusForbidden, rt[1], rt[2], h) : rt \in Rates, h \in BOOLEAN }

\* a failed call: neither a success nor a 404
IsFault(resp) == resp.err /\ (resp.nil \/ resp.status # StatusNotFound)

\* the bound on failures: a run sees at most MaxFaults failed calls and commands
Allowed(resp) == IsFault(resp) => faults < MaxFaults
Charge(resp) == faults' = faults + (IF IsFault(resp) THEN 1 ELSE 0)

\* GetContents on a path: success iff the file is there, 404 iff it is not,
\* or a failure
ContentResps(r, path) ==
    (IF Exists(r, path) THEN OkResps ELSE NotFoundResps) \cup FailResps \cup NetErrs

ListResps == OkResps \cup FailResps \cup NetErrs

\* an API call: the position it was made at, its arguments and its response
Call(at, api, r, path, pg, resp) ==
    [at |-> at, api |-> api, repo |-> r, path |-> path, page |-> pg, resp |-> resp]

NoWf == [runs |-> 0, outcome |-> "", err |-> <<>>, decision |-> "",
         commits |-> 0, published |-> 0, metas |-> 0, prs |-> 0]

Init ==
    /\ githubToken \in {"", "TOKEN"}
    /\ dryRun \in BOOLEAN
    /\ gpgKeyID \in {"", "KEY"}
    /\ repoName \in {NoRepo} \cup Repos
    /\ orgPages \in (IF repoName = NoRepo THEN Layouts ELSE {OnePage})
    /\ files \in { [r \in Repos |-> [root |-> k[r][1], nested |-> k[r][2]]] :
                     k \in [Repos -> RepoKinds] }
    /\ repoName # NoRepo =>
         \A r \in Repos \ {repoName} : files[r] = [root |-> NoFile, nested |-> NoFile]
    /\ pc = "main"
    /\ now = 0
    /\ page = 0
    /\ repos = <<>>
    /\ nextPage = 0
    /\ repoIdx = 0
    /\ pathIdx = 0
    /\ allRepos = <<>>
    /\ procIdx = 0
    /\ cur = NoRepo
    /\ newContent = <<>>
    /\ defaultBranch = ""
    /\ tempDir = FALSE
    /\ gitLog = <<>>
    /\ remote = [r \in Repos |-> [pushed |-> FALSE, branch |-> "", content |-> <<>>,
                               signed |-> FALSE]]
    /\ pulls = {}
    /\ lastCall = Call("", "", NoRepo, "", 0, NoResp)
    /\ listCalls = 0
    /\ listWaits = 0
    /\ pageProbes = [k \in 1..MaxPages |-> 0]
    /\ probes = [r \in Repos |-> <<>>]
    /\ errLog = FALSE
    /\ wf = [r \in Repos |-> NoWf]
    /\ runs = <<>>
    /\ exitCode = -1
    /\ faults = 0

(* --------------------------- control flow ----------------------------- *)
Ctl(p, pg, i, j, k, c, x) ==
    [pc |-> p, page |-> pg, repoIdx |-> i, pathIdx |-> j, procIdx |-> k,
     cur |-> c, exitCode |-> x]

Goto(c) ==
    /\ pc' = c.pc
    /\ page' = c.page
    /\ repoIdx' = c.repoIdx
    /\ pathIdx' = c.pathIdx
    /\ procIdx' = c.procIdx
    /\ cur' = c.cur
    /\ exitCode' = c.exitCode

\* os.Exit / return from main
Exit(pg, k, c, x) == Ctl("exit", pg, 0, 0, k, c, x)

\* main's loop over the crawl's result: the workflow starts for entry k, or
\* main returns
ProcessFrom(k, result, pg) ==
    IF k <= Len(result)
    THEN Ctl("fetch", pg, 0, 0, k, result[k], -1)
    ELSE Exit(pg, k, NoRepo, 0)

\* faulty variant: the crawl stops after the page, whatever the cursor
AfterPageStop(np, pg, result) == ProcessFrom(1, result, pg)

\* the end of a page: stop on a zero cursor, else advance to it
AfterPage(np, pg, result) ==
    IF np = 0 THEN ProcessFrom(1, result, pg)
    ELSE Ctl("list", np, 0, 0, 0, NoRepo, -1)

\* faulty variant: a found file does not break out of the path loop
AfterRepoNoBreak(i, rs, np, pg, result) ==
    IF i > 0 /\ pathIdx < Len(paths) THEN Ctl("probe", pg, i, pathIdx + 1, 0, NoRepo, -1)
    ELSE IF i < Len(rs) THEN Ctl("probe", pg, i + 1, 1, 0, NoRepo, -1)
    ELSE AfterPage(np, pg, result)

\* break out of the path loop, or the path loop ran out: the next repository
AfterRepo(i, rs, np, pg, result) ==
    IF i < Len(rs) THEN Ctl("probe", pg, i + 1, 1, 0, NoRepo, -1)
    ELSE AfterPage(np, pg, result)

\* continue of the path loop: the next candidate path
AfterPath(i, j, rs, np, pg, result) ==
    IF j < Len(paths) THEN Ctl("probe", pg, i, j + 1, 0, NoRepo, -1)
    ELSE AfterRepo(i, rs, np, pg, result)

\* the rate-limit decision on a page listing: wait and retry the same page
ListSleeps(resp) == ~resp.nil /\ resp.remaining = 0 /\ resp.wait > 0

\* the rate-limit decision on a failed probe: wait and retry the same path
ProbeSleeps(resp) ==
    /\ ~resp.nil
    /\ resp.status # StatusNotFound
    /\ resp.remaining = 0
    /\ resp.wait > 0

\* a failed probe is logged unless its message contains "404"
ProbeLogged(resp) == resp.err /\ ~resp.has404

\* faulty variant: a failed listing ends the crawl, and the matches found so
\* far are returned and processed
ListFailsKeepsMatches(pg, result) == ProcessFrom(1, result, pg)

\* a failed listing: FindReposWithRenovate returns nil and the error, whatever
\* it has found so far, and main ends the process with log.Fatalf
ListFails(pg, result) == Exit(pg, 0, NoRepo, 1)

(* ------------------------ FindReposWithRenovate ----------------------- *)
ListByOrg ==
    /\ pc = "list"
    /\ \E resp \in ListResps :
        /\ Allowed(resp)
        /\ Charge(resp)
        /\ ListSleeps(resp) => now + resp.wait <= MaxClock
        /\ lastCall' = Call("list", "ListByOrg", NoRepo, "", page, resp)
        /\ listCalls' = listCalls + 1
        /\ IF resp.err
           THEN \* return nil, err; main: log.Fatalf
                /\ Goto(ListFails(page, allRepos))
                /\ UNCHANGED <<now, repos, nextPage, allRepos, listWaits, pageProbes>>
           ELSE IF ListSleeps(resp)
           THEN \* time.Sleep(waitTime); continue
                /\ now' = now + resp.wait
                /\ listWaits' = listWaits + 1
                /\ Goto(Ctl("list", page, 0, 0, 0, NoRepo, -1))
                /\ UNCHANGED <<repos, nextPage, allRepos, pageProbes>>
           ELSE /\ repos' = orgPages[ServerPage(page)]
                /\ nextPage' = ServerNext(page)
                /\ pageProbes' = [pageProbes EXCEPT ![ServerPage(page)] = @ + 1]
                /\ Goto(AfterRepo(0, repos', nextPage', page, allRepos))
                /\ UNCHANGED <<now, allRepos, listWaits>>
    /\ errLog' = FALSE
    /\ UNCHANGED <<envVars, gitVars, remoteVars, probes, wf, runs>>

\* the first GetContents of a candidate path (line 106)
Probe ==
    /\ pc = "probe"
    /\ LET r == repos[repoIdx]
           path == paths[pathIdx]
       IN \E resp \in ContentResps(r, path) :
            /\ Allowed(resp)
            /\ Charge(resp)
            /\ ProbeSleeps(resp) => now + resp.wait <= MaxClock
            /\ lastCall' = Call("probe", "GetContents", r, path, page, resp)
            /\ probes' = [probes EXCEPT ![r] = Append(@, [path |-> path, ok |-> ~resp.err])]
            /\ IF ~resp.err
               THEN /\ allRepos' = Append(allRepos, r)
                    /\ Goto(AfterRepo(repoIdx, repos, nextPage, page, allRepos'))
                    /\ errLog' = FALSE
                    /\ UNCHANGED now
               ELSE IF ~resp.nil /\ resp.status = StatusNotFound
               THEN /\ Goto(AfterPath(repoIdx, pathIdx, repos, nextPage, page, allRepos))
                    /\ errLog' = FALSE
                    /\ UNCHANGED <<now, allRepos>>
               ELSE IF ProbeSleeps(resp)
               THEN /\ now' = now + resp.wait
                    /\ Goto(Ctl("retry", page, repoIdx, pathIdx, 0, NoRepo, -1))
                    /\ errLog' = FALSE
                    /\ UNCHANGED allRepos
               ELSE /\ errLog' = ProbeLogged(resp)
                    /\ Goto(AfterPath(repoIdx, pathIdx, repos, nextPage, page, allRepos))
                    /\ UNCHANGED <<now, allRepos>>
    /\ UNCHANGED <<envVars, repos, nextPage, gitVars, remoteVars, listCalls,
                   listWaits, pageProbes, wf, runs>>

\* the GetContents repeated after a rate-limit wait (line 124)
ProbeRetry ==
    /\ pc = "retry"
    /\ LET r == repos[repoIdx]
           path == paths[pathIdx]
       IN \E resp \in ContentResps(r, path) :
            /\ Allowed(resp)
            /\ Charge(resp)
            /\ lastCall' = Call("retry", "GetContents", r, path, page, resp)
            /\ probes' = [probes EXCEPT ![r] = Append(@, [path |-> path, ok |-> ~resp.err])]
            /\ IF ~resp.err
               THEN /\ allRepos' = Append(allRepos, r)
                    /\ Goto(AfterRepo(repoIdx, repos, nextPage, page, allRepos'))
                    /\ errLog' = FALSE
               ELSE /\ errLog' = ProbeLogged(resp)
                    /\ Goto(AfterPath(repoIdx, pathIdx, repos, nextPage, page, allRepos))
                    /\ UNCHANGED allRepos
    /\ UNCHANGED <<envVars, now, repos, nextPage, gitVars, remoteVars, listCalls,
                   listWaits, pageProbes, wf, runs>>

(* ------------------------------- main --------------------------------- *)
\* CheckAndUpdateRenovateConfig returned to main: the organization loop logs
\* an error and continues, the single-repository branch ends the process
Returned(failed) ==
    IF repoName = NoRepo THEN ProcessFrom(procIdx + 1, allRepos, page)
    ELSE Exit(page, procIdx, cur, IF failed THEN 1 ELSE 0)

\* the workflow moves on to its next call
Step(p) == Ctl(p, page, 0, 0, procIdx, cur, -1)

\* the workflow's calls: the rate-limit metadata is not looked at
WfOk == Resp(FALSE, StatusOK, RateFull, 1, FALSE)
WfNotFound == Resp(TRUE, StatusNotFound, RateFull, 1, TRUE)
WfFail == Resp(TRUE, StatusForbidden, RateFull, 1, FALSE)

\* main up to the construction of the client: without a token, log.Fatal
Main ==
    /\ pc = "main"
    /\ IF githubToken = ""
       THEN Goto(Exit(page, 0, NoRepo, 1))
       ELSE Goto(Ctl("newclient", page, 0, 0, 0, NoRepo, -1))
    /\ errLog' = FALSE
    /\ UNCHANGED <<envVars, now, repos, nextPage, allRepos, gitVars, remoteVars,
                   lastCall, listCalls, listWaits, pageProbes, probes, wf, runs,
                   faults>>

\* NewGitHubClient: os.MkdirAll("logs") and os.Create of the log file, each
\* ending the process with log.Fatalf when it fails; then main takes the
\* single-repository branch or the organization branch
NewGitHubClient ==
    /\ pc = "newclient"
    /\ \E ok \in BOOLEAN :
         IF ok
         THEN Goto(Ctl(IF repoName = NoRepo THEN "list" ELSE "get",
                       page, 0, 0, 0, NoRepo, -1))
         ELSE Goto(Exit(page, 0, NoRepo, 1))
    /\ errLog' = FALSE
    /\ UNCHANGED <<envVars, now, repos, nextPage, allRepos, gitVars, remoteVars,
                   lastCall, listCalls, listWaits, pageProbes, probes, wf, runs,
                   faults>>

\* client.Repositories.Get of the single-repository branch (line 355)
GetRepository ==
    /\ pc = "get"
    /\ \E resp \in {WfOk, WfFail} :
        /\ Allowed(resp)
        /\ Charge(resp)
        /\ lastCall' = Call("get", "Get", repoName, "", 0, resp)
        /\ IF resp.err
           THEN Goto(Exit(page, 0, NoRepo, 1))
           ELSE Goto(Ctl("fetch", page, 0, 0, 0, repoName, -1))
    /\ errLog' = FALSE
    /\ UNCHANGED <<envVars, now, repos, nextPage, allRepos, gitVars, remoteVars,
                   listCalls, listWaits, pageProbes, probes, wf, runs>>

(* -------------------- CheckAndUpdateRenovateConfig -------------------- *)
Aborted(r, e) == [wf EXCEPT ![r].outcome = "Aborted", ![r].err = e]

\* faulty variant: the marker test is dropped
DecideNoContains(text, dry) ==
    IF dry THEN "DryRunMatch" ELSE "MatchAndPublish"

\* faulty variant: the dry-run flag is ignored
DecideIgnoreDryRun(text, dry) ==
    IF ~Contains(text, Marker) THEN "NoMatch" ELSE "MatchAndPublish"

\* the Deciding step: NoMatch, DryRunMatch or MatchAndPublish
Decide(text, dry) ==
    IF ~Contains(text, Marker) THEN "NoMatch"
    ELSE IF dry THEN "DryRunMatch"
    ELSE "MatchAndPublish"

\* GetContents of the root path, the decoding and the decision (lines 237-263),
\* up to the call of createSignedCommit
FetchConfig ==
    /\ pc = "fetch"
    /\ LET r == cur
           started == [wf EXCEPT ![r].runs = @ + 1]
       IN \E resp \in {IF Exists(r, WorkflowPath) THEN WfOk ELSE WfNotFound, WfFail} :
            /\ Allowed(resp)
            /\ Charge(resp)
            /\ lastCall' = Call("fetch", "GetContents", r, WorkflowPath, 0, resp)
            /\ runs' = Append(runs, r)
            /\ IF resp.err
               THEN /\ wf' = [started EXCEPT ![r].outcome = "Aborted",
                                ![r].err = <<"error getting renovate.json content">>]
                    /\ Goto(Returned(TRUE))
                    /\ UNCHANGED <<newContent, gitLog>>
               ELSE LET dec == GetContent(ConfigFiles[FileAt(r, WorkflowPath)])
                        d == Decide(dec.text, dryRun)
                    IN IF IsDir(FileAt(r, WorkflowPath))
                       THEN \* content == nil: content.GetContent() panics
                            /\ wf' = [started EXCEPT ![r].outcome = "Panicked"]
                            /\ Goto(Exit(page, procIdx, r, ExitPanic))
                            /\ UNCHANGED <<newContent, gitLog>>
                       ELSE IF ~dec.ok
                       THEN /\ wf' = [started EXCEPT ![r].outcome = "Aborted",
                                        ![r].err = <<"error decoding content">>]
                            /\ Goto(Returned(TRUE))
                            /\ UNCHANGED <<newContent, gitLog>>
                       ELSE IF d = "NoMatch"
                       THEN /\ wf' = [started EXCEPT ![r].outcome = "NoOp",
                                        ![r].decision = d]
                            /\ Goto(Returned(FALSE))
                            /\ UNCHANGED <<newContent, gitLog>>
                       ELSE IF d = "DryRunMatch"
                       THEN /\ newContent' = ReplaceAll(dec.text, Marker, Replacement)
                            /\ wf' = [started EXCEPT ![r].outcome = "DryRunNoOp",
                                        ![r].decision = d]
                            /\ Goto(Returned(FALSE))
                            /\ UNCHANGED gitLog
                       ELSE /\ newContent' = ReplaceAll(dec.text, Marker, Replacement)
                            /\ wf' = [started EXCEPT ![r].outcome = "Publishing",
                                        ![r].decision = d, ![r].commits = @ + 1]
                            /\ gitLog' = <<>>
                            /\ Goto(Step("mkdtemp"))
    /\ errLog' = FALSE
    /\ UNCHANGED <<envVars, now, repos, nextPage, allRepos, defaultBranch, tempDir,
                   remoteVars, listCalls, listWaits, pageProbes, probes>>

(* -------------------------- createSignedCommit ------------------------ *)
\* faulty variant: the error of createSignedCommit is dropped and the workflow goes on
StepFailsIgnored(made, e) ==
    /\ tempDir' = (IF made THEN FALSE ELSE tempDir)
    /\ wf' = wf
    /\ Goto(Step("getmeta"))

\* faulty variant: a failing step returns without the deferred os.RemoveAll
StepFailsLeak(made, e) ==
    /\ tempDir' = tempDir
    /\ wf' = Aborted(cur, <<"error creating signed commit", e>>)
    /\ Goto(Returned(TRUE))

\* a step of createSignedCommit failed: the deferred os.RemoveAll runs if the
\* workspace was made, and the workflow returns the wrapped error
StepFails(made, e) ==
    /\ tempDir' = (IF made THEN FALSE ELSE tempDir)
    /\ wf' = Aborted(cur, <<"error creating signed commit", e>>)
    /\ Goto(Returned(TRUE))

\* one external command of createSignedCommit, run at position at: on success
\* the call goes on to position next
GitStep(at, cmd, e, next) ==
    /\ pc = at
    /\ \E ok \in BOOLEAN :
        /\ ~ok => faults < MaxFaults
        /\ faults' = faults + (IF ok THEN 0 ELSE 1)
        /\ gitLog' = Append(gitLog, cmd)
        /\ IF ok
           THEN /\ Goto(Step(next))
                /\ UNCHANGED <<tempDir, wf>>
           ELSE StepFails(TRUE, e)
    /\ errLog' = FALSE
    /\ UNCHANGED <<envVars, now, repos, nextPage, allRepos, newContent,
                   defaultBranch, remoteVars, lastCall, listCalls, listWaits,
                   pageProbes, probes, runs>>

\* os.MkdirTemp and the registration of the deferred os.RemoveAll
MkdirTemp ==
    /\ pc = "mkdtemp"
    /\ \E ok \in BOOLEAN :
        /\ ~ok => faults < MaxFaults
        /\ faults' = faults + (IF ok THEN 0 ELSE 1)
        /\ gitLog' = Append(gitLog, "mkdtemp")
        /\ IF ok
           THEN /\ tempDir' = TRUE
                /\ Goto(Step("clone"))
                /\ UNCHANGED wf
           ELSE StepFails(FALSE, "error creating temp directory")
    /\ errLog' = FALSE
    /\ UNCHANGED <<envVars, now, repos, nextPage, allRepos, newContent,
                   defaultBranch, remoteVars, lastCall, listCalls, listWaits,
                   pageProbes, probes, runs>>

GitClone == GitStep("clone", "clone", "error cloning repository", "checkout")

GitCheckout == GitStep("checkout", "checkout -b", "error creating branch", "write")

WriteFile == GitStep("write", "write", "error writing renovate.json", "add")

\* faulty variant: user.signingkey is configured whether a key was given or not
AfterAddAlways(key) == "config"

\* after git add, the signing key is configured only if one was given
AfterAdd(key) == IF key # "" THEN "config" ELSE "commit"

GitAdd == GitStep("add", "add", "error adding file", AfterAdd(gpgKeyID))

GitConfig == GitStep("config", "config user.signingkey", "error configuring signing key", "commit")

\* the commit command: -S is appended if a key was given
CommitCmd(key) == IF key # "" THEN "commit -S" ELSE "commit"

GitCommit == GitStep("commit", CommitCmd(gpgKeyID), "error creating commit", "push")

\* git push, the return of createSignedCommit and its deferred os.RemoveAll
GitPush ==
    /\ pc = "push"
    /\ \E ok \in BOOLEAN :
        /\ ~ok => faults < MaxFaults
        /\ faults' = faults + (IF ok THEN 0 ELSE 1)
        /\ gitLog' = Append(gitLog, "push")
        /\ IF ok
           THEN /\ remote' = [remote EXCEPT ![cur] =
                                [pushed |-> TRUE, branch |-> BranchName,
                                 content |-> newContent, signed |-> gpgKeyID # ""]]
                /\ tempDir' = FALSE
                /\ wf' = [wf EXCEPT ![cur].published = @ + 1]
                /\ Goto(Step("getmeta"))
           ELSE /\ StepFails(TRUE, "error pushing branch")
                /\ UNCHANGED remote
    /\ errLog' = FALSE
    /\ UNCHANGED <<envVars, now, repos, nextPage, allRepos, newContent,
                   defaultBranch, pulls, lastCall, listCalls, listWaits,
                   pageProbes, probes, runs>>

(* ------------- CheckAndUpdateRenovateConfig, after the push ----------- *)
\* Repositories.Get: the default branch as the server reports it now
GetDefaultBranch ==
    /\ pc = "getmeta"
    /\ \E resp \in {WfOk, WfFail} :
        /\ Allowed(resp)
        /\ Charge(resp)
        /\ lastCall' = Call("getmeta", "Get", cur, "", 0, resp)
        /\ IF resp.err
           THEN /\ wf' = [wf EXCEPT ![cur].metas = @ + 1, ![cur].outcome = "Aborted",
                            ![cur].err = <<"error getting repository info">>]
                /\ Goto(Returned(TRUE))
                /\ UNCHANGED defaultBranch
           ELSE /\ wf' = [wf EXCEPT ![cur].metas = @ + 1]
                /\ defaultBranch' \in Branches
                /\ Goto(Step("createpr"))
    /\ errLog' = FALSE
    /\ UNCHANGED <<envVars, now, repos, nextPage, allRepos, newContent, tempDir,
                   gitLog, remoteVars, listCalls, listWaits, pageProbes, probes,
                   runs>>

\* the head of the pull request (NewPullRequest.Head)
PrHead == "update-renovate-config"

\* faulty variant: the base is the default branch of the repository object
\* the workflow was called with
PrBaseListed(fetched, listed) == listed

\* the base of the pull request: repoInfo.GetDefaultBranch() of the fetch
PrBase(fetched, listed) == fetched

\* PullRequests.Create with head update-renovate-config and the resolved base
CreatePR ==
    /\ pc = "createpr"
    /\ \E resp \in {WfOk, WfFail} :
        /\ Allowed(resp)
        /\ Charge(resp)
        /\ lastCall' = Call("createpr", "Create", cur, "", 0, resp)
        /\ IF resp.err
           THEN /\ wf' = [wf EXCEPT ![cur].prs = @ + 1, ![cur].outcome = "Aborted",
                            ![cur].err = <<"error creating PR">>]
                /\ Goto(Returned(TRUE))
                /\ UNCHANGED pulls
           ELSE /\ wf' = [wf EXCEPT ![cur].prs = @ + 1, ![cur].outcome = "Done"]
                /\ pulls' = pulls \cup
                     {[repo |-> cur, head |-> PrHead,
                       base |-> PrBase(defaultBranch, ListedDefaultBranch)]}
                /\ Goto(Returned(FALSE))
    /\ errLog' = FALSE
    /\ UNCHANGED <<envVars, now, repos, nextPage, allRepos, gitVars, remote,
                   listCalls, listWaits, pageProbes, probes, runs>>

Next ==
    \/ Main
    \/ NewGitHubClient
    \/ GetRepository
    \/ ListByOrg
    \/ Probe
    \/ ProbeRetry
    \/ FetchConfig
    \/ MkdirTemp
    \/ GitClone
    \/ GitCheckout
    \/ WriteFile
    \/ GitAdd
    \/ GitConfig
    \/ GitCommit
    \/ GitPush
    \/ GetDefaultBranch
    \/ CreatePR

Spec == Init /\ [][Next]_vars

(* ============================== claims =============================== *)
ErrFetch == <<"error getting renovate.json content">>
ErrDecode == <<"error decoding content">>
ErrCommit == "error creating signed commit"

\* the workflow ran for r and its fetch and its decoding succeeded
Decoded(r) ==
    /\ wf[r].runs > 0
    /\ wf[r].err # ErrFetch
    /\ wf[r].err # ErrDecode
    /\ wf[r].outcome # "Panicked"

\* the text the workflow decoded for r
DecodedText(r) == GetContent(ConfigFiles[files[r].root]).text

NoPullFor(r) == \A p \in pulls : p.repo # r

\* nothing was published or requested for r
Untouched(r) ==
    /\ wf[r].commits = 0
    /\ wf[r].metas = 0
    /\ wf[r].prs = 0
    /\ ~remote[r].pushed
    /\ NoPullFor(r)

\* C1: whatever the dry-run setting, a repository whose fetched and decoded
\* content lacks the marker ends in NoOp without an error, and
\* createSignedCommit, the metadata fetch and the pull-request call are never
\* made for it; in single-repository mode the process then exits with 0.
C1_NoMarkerNoOp ==
    \A r \in Repos :
        (Decoded(r) /\ ~Contains(DecodedText(r), Marker)) =>
            /\ wf[r].outcome = "NoOp"
            /\ wf[r].err = <<>>
            /\ Untouched(r)
            /\ (repoName = r /\ pc = "exit") => exitCode = 0

C1_Witness ==
    \E r \in Repos :
        /\ Decoded(r)
        /\ ~Contains(DecodedText(r), Marker)
        /\ wf[r].outcome = "NoOp"
        /\ ~dryRun
        /\ pc = "exit"

\* C2: in a dry-run run a repository whose decoded content has the marker ends
\* in DryRunNoOp without an error, and in the whole run, organization-wide or
\* single-repository, no createSignedCommit call, no pull-request call and no
\* change of remote state happens.
C2_DryRunNoOp ==
    dryRun =>
        /\ \A r \in Repos :
             (Decoded(r) /\ Contains(DecodedText(r), Marker)) =>
                 /\ wf[r].outcome = "DryRunNoOp"
                 /\ wf[r].err = <<>>
                 /\ (repoName = r /\ pc = "exit") => exitCode = 0
        /\ \A r \in Repos : wf[r].commits = 0 /\ wf[r].prs = 0 /\ ~remote[r].pushed
        /\ pulls = {}
        /\ ~tempDir
        /\ gitLog = <<>>

C2_Witness ==
    /\ dryRun
    /\ repoName = NoRepo
    /\ pc = "exit"
    /\ \A r \in Repos : wf[r].outcome = "DryRunNoOp"

\* C3: createSignedCommit has been called for a repository only after its
\* fetch and decoding succeeded, its content held the marker and dry-run was
\* off; a pull request has been requested for it only after createSignedCommit
\* completed, push included; a failure of createSignedCommit leads to neither
\* the metadata fetch nor a pull request.
C3_PublishOrder ==
    \A r \in Repos :
        /\ wf[r].commits > 0 =>
             /\ Decoded(r)
             /\ files[r].root # NoFile
             /\ Contains(DecodedText(r), Marker)
             /\ ~dryRun
             /\ wf[r].decision = "MatchAndPublish"
        /\ wf[r].prs > 0 => (wf[r].published > 0 /\ remote[r].pushed)
        /\ wf[r].metas > 0 => wf[r].published > 0
        /\ ~NoPullFor(r) => wf[r].prs > 0
        /\ (wf[r].err # <<>> /\ wf[r].err[1] = ErrCommit) =>
             (wf[r].prs = 0 /\ wf[r].metas = 0 /\ NoPullFor(r))

C3_Witness ==
    \E r1, r2 \in Repos :
        /\ wf[r1].err # <<>>
        /\ wf[r1].err[1] = ErrCommit
        /\ wf[r1].prs = 0
        /\ wf[r2].prs > 0
        /\ wf[r2].published > 0
        /\ ~NoPullFor(r2)

CrawlPcs == {"list", "probe", "retry"}

\* the last call was a page listing that failed: FindReposWithRenovate
\* returned an error
ListFailed == lastCall.at = "list" /\ lastCall.resp.err

\* FindReposWithRenovate has returned its result
CrawlReturned ==
    /\ repoName = NoRepo
    /\ listCalls > 0
    /\ pc \notin CrawlPcs
    /\ ~ListFailed

Occ(seq, x) == Cardinality({ i \in 1..Len(seq) : seq[i] = x })

HasConfig(r) == \E j \in 1..Len(paths) : Exists(r, paths[j])
HasMarkerConfig(r) == \E j \in 1..Len(paths) : HasMarker(FileAt(r, paths[j]))

\* C4: at the end of a non-dry-run organization-wide run without any failed
\* call or command: a repository without a config file at any candidate path
\* is untouched; every repository with a config file at a candidate path that
\* contains the marker has the branch pushed with the marker replaced and a
\* pull request against its default branch; every repository whose config
\* file lacks the marker has no commit and no pull request.
C4_EndToEnd ==
    (pc = "exit" /\ exitCode = 0 /\ repoName = NoRepo /\ ~dryRun /\ faults = 0) =>
        \A r \in Repos :
            /\ ~HasConfig(r) => (Untouched(r) /\ wf[r].runs = 0)
            /\ HasMarkerConfig(r) =>
                 /\ remote[r].pushed
                 /\ ~Contains(remote[r].content, Marker)
                 /\ Contains(remote[r].content, Replacement)
                 /\ \E p \in pulls : p.repo = r /\ p.head = BranchName
            /\ (HasConfig(r) /\ ~HasMarkerConfig(r)) => Untouched(r)

\* a page listing whose response, of a successful or of a failed call, reports
\* remaining = 0 with the reset in the future is followed by a wait and a
\* listing of the same cursor
C5_Step ==
    (pc = "list" /\ lastCall'.at = "list" /\ ~lastCall'.resp.nil
        /\ lastCall'.resp.remaining = 0 /\ lastCall'.resp.wait > 0) =>
            /\ pc' = "list"
            /\ page' = page
            /\ now' = now + lastCall'.resp.wait
            /\ listWaits' = listWaits + 1
            /\ probes' = probes
            /\ pageProbes' = pageProbes
            /\ allRepos' = allRepos

C5_Pages ==
    /\ \A k \in 1..MaxPages : pageProbes[k] <= 1
    /\ \A r \in Repos : Occ(allRepos, r) <= 1
    /\ CrawlReturned =>
         /\ \A k \in 1..Len(orgPages) : pageProbes[k] = 1
         /\ \A r \in Repos : Len(probes[r]) > 0

\* C5: whenever the response of a page listing reports remaining = 0 with the
\* reset in the future, the crawler waits until the reset and lists the same
\* cursor again, with no repository of that response probed; so no page is
\* probed twice, no repository is returned twice, and a crawl that returns
\* has probed every page exactly once.
C5_SamePageRetry == [](C5_Pages) /\ [][C5_Step]_vars

\* C6 as stated: a crawl of N pages that returns has made exactly N ListByOrg
\* calls.
C6_ExactlyNFetches == CrawlReturned => listCalls = Len(orgPages)

\* C6, amended: a crawl of N pages makes at most N + W ListByOrg calls, W the
\* number of rate-limit waits on a listing, and exactly N + W when it returns;
\* each listing after the first is made at the cursor the previous page
\* returned, and the crawl returns only on a zero cursor.
C6_Pagination ==
    /\ listCalls <= Len(orgPages) + listWaits
    /\ CrawlReturned =>
         /\ listCalls = Len(orgPages) + listWaits
         /\ nextPage = 0
         /\ ServerPage(page) = Len(orgPages)
    /\ (pc = "list" /\ repoName = NoRepo) =>
         \/ page = 0 /\ listCalls = listWaits
         \/ page # 0 /\ page = nextPage /\ listCalls = page - 1 + listWaits

C6_Witness ==
    /\ CrawlReturned
    /\ Len(orgPages) > 1
    /\ listWaits > 0
    /\ listCalls = Len(orgPages) + listWaits

\* C7: the candidate paths of a repository are probed root first, then
\* nested; no path is probed after a successful check, so a successful root
\* check means the nested path is never probed; a repository is in the result
\* exactly once if one of its checks succeeded, for instance the nested one
\* after a 404 at the root.
PathPos(path) == CHOOSE j \in 1..Len(paths) : paths[j] = path

C7_ProbeOrder ==
    \A r \in Repos :
        LET h == probes[r] IN
        /\ Len(h) > 0 => h[1].path = paths[1]
        /\ \A i \in 1..Len(h) : \A j \in 1..Len(h) :
             i < j => PathPos(h[i].path) <= PathPos(h[j].path)
        /\ \A i \in 1..Len(h) : h[i].ok => i = Len(h)
        /\ (\E i \in 1..Len(h) : h[i].ok /\ h[i].path = paths[1]) =>
             \A i \in 1..Len(h) : h[i].path = paths[1]
        /\ Occ(allRepos, r) = (IF \E i \in 1..Len(h) : h[i].ok THEN 1 ELSE 0)

C7_Witness ==
    \E r \in Repos :
        /\ files[r].root = NoFile
        /\ faults = 0
        /\ probes[r] = << [path |-> paths[1], ok |-> FALSE],
                          [path |-> paths[2], ok |-> TRUE] >>
        /\ Occ(allRepos, r) = 1
        /\ CrawlReturned

\* a failed probe that is neither a 404 nor a rate-limit answer
PlainProbeError(c) ==
    /\ c.at \in {"probe", "retry"}
    /\ IsFault(c.resp)
    /\ (c.resp.nil \/ c.resp.remaining # 0)

\* C8: the crawl's result holds exactly the listed repositories with a
\* successful existence check; a 404 is not logged as an error; a probe error
\* that is neither a 404 nor a rate-limit answer is logged and the next
\* candidate path is tried; a crawl that returns has probed every listed
\* repository, whatever failed before.
C8_CrawlResult ==
    /\ \A r \in Repos :
         Occ(allRepos, r) = (IF \E i \in 1..Len(probes[r]) : probes[r][i].ok THEN 1 ELSE 0)
    /\ (lastCall.at \in {"probe", "retry"} /\ ~lastCall.resp.nil
          /\ lastCall.resp.status = StatusNotFound) => ~errLog
    /\ PlainProbeError(lastCall) =>
         /\ errLog
         /\ lastCall.path = paths[1] =>
              (pc = "probe" /\ repos[repoIdx] = lastCall.repo /\ pathIdx = PathPos(paths[1]) + 1)
    /\ CrawlReturned => \A r \in Repos : Len(probes[r]) > 0

\* C9: an organization-wide run starts the workflow once for each entry of the
\* crawl's result, in order, whatever happened in the earlier workflows, and
\* exits with 0; a single-repository run exits with a non-zero status when its
\* workflow failed.
C9_Containment ==
    /\ CrawlReturned =>
         /\ Len(runs) <= Len(allRepos)
         /\ \A i \in 1..Len(runs) : runs[i] = allRepos[i]
         /\ \A r \in Repos : wf[r].runs = Occ(runs, r)
         /\ pc = "exit" => (runs = allRepos /\ exitCode = 0)
    /\ (repoName # NoRepo /\ pc = "exit" /\ wf[repoName].runs > 0) =>
         /\ wf[repoName].runs = 1
         /\ runs = <<repoName>>
         /\ wf[repoName].outcome = "Aborted" => exitCode = 1
         /\ wf[repoName].outcome = "Panicked" => exitCode # 0
         /\ wf[repoName].outcome \notin {"Aborted", "Panicked"} => exitCode = 0

\* the error each step of createSignedCommit returns
StepError(cmd) ==
    CASE cmd = "mkdtemp" -> "error creating temp directory"
      [] cmd = "clone" -> "error cloning repository"
      [] cmd = "checkout -b" -> "error creating branch"
      [] cmd = "write" -> "error writing renovate.json"
      [] cmd = "add" -> "error adding file"
      [] cmd = "config user.signingkey" -> "error configuring signing key"
      [] cmd \in {"commit", "commit -S"} -> "error creating commit"
      [] cmd = "push" -> "error pushing branch"

GitPcs == {"clone", "checkout", "write", "add", "config", "commit", "push"}

\* C10: the temporary workspace exists only while createSignedCommit runs:
\* once the call has returned, after a failure of any step or after the push,
\* it is gone; and the error a failed call returns names the step that failed.
C10_Cleanup ==
    /\ tempDir => pc \in GitPcs
    /\ (runs # <<>> /\ wf[runs[Len(runs)]].err # <<>>
          /\ wf[runs[Len(runs)]].err[1] = ErrCommit) =>
         /\ gitLog # <<>>
         /\ wf[runs[Len(runs)]].err[2] = StepError(gitLog[Len(gitLog)])
         /\ pc \notin GitPcs

C10_Witness ==
    /\ runs # <<>>
    /\ wf[runs[Len(runs)]].err = <<ErrCommit, "error pushing branch">>
    /\ gitLog[Len(gitLog)] = "push"
    /\ "config user.signingkey" \in { gitLog[i] : i \in 1..Len(gitLog) }
    /\ ~tempDir

(* ------------------- the rewriting, over many texts ------------------- *)
\* a run with -repo A whose renovate.json is any text of at most MaxPieces
\* fragments
InitText ==
    /\ githubToken \in {"", "TOKEN"}
    /\ dryRun \in BOOLEAN
    /\ gpgKeyID \in {"", "KEY"}
    /\ repoName = AllReposSeq[1]
    /\ orgPages = OnePage
    /\ files \in { [r \in Repos |-> IF r = repoName
                                    THEN [root |-> id, nested |-> NoFile]
                                    ELSE [root |-> NoFile, nested |-> NoFile]] :
                     id \in 1..Len(ConfigFiles) }
    /\ pc = "main"
    /\ now = 0
    /\ page = 0
    /\ repos = <<>>
    /\ nextPage = 0
    /\ repoIdx = 0
    /\ pathIdx = 0
    /\ allRepos = <<>>
    /\ procIdx = 0
    /\ cur = NoRepo
    /\ newContent = <<>>
    /\ defaultBranch = ""
    /\ tempDir = FALSE
    /\ gitLog = <<>>
    /\ remote = [r \in Repos |-> [pushed |-> FALSE, branch |-> "", content |-> <<>>,
                               signed |-> FALSE]]
    /\ pulls = {}
    /\ lastCall = Call("", "", NoRepo, "", 0, NoResp)
    /\ listCalls = 0
    /\ listWaits = 0
    /\ pageProbes = [k \in 1..MaxPages |-> 0]
    /\ probes = [r \in Repos |-> <<>>]
    /\ errLog = FALSE
    /\ wf = [r \in Repos |-> NoWf]
    /\ runs = <<>>
    /\ exitCode = -1
    /\ faults = 0

NextText ==
    \/ Main
    \/ NewGitHubClient
    \/ GetRepository
    \/ FetchConfig
    \/ MkdirTemp
    \/ GitClone
    \/ GitCheckout
    \/ WriteFile
    \/ GitAdd
    \/ GitConfig
    \/ GitCommit
    \/ GitPush
    \/ GetDefaultBranch
    \/ CreatePR

TextSpec == InitText /\ [][NextText]_vars

\* the number of offsets at which sub occurs in s
Count(s, sub) == Cardinality({ i \in 1..Len(s) : MatchAt(s, sub, i) })

\* createSignedCommit was called for r: newContent holds the bytes it was given
Handed(r) == cur = r /\ wf[r].commits > 0

\* C11: for every decoded text with k occurrences of the marker, the bytes
\* handed to createSignedCommit (and the bytes a push publishes) hold no
\* occurrence of the marker and k more occurrences of the replacement than
\* the text, and deciding on them again gives NoMatch.
C11_Rewrite ==
    \A r \in Repos :
        Handed(r) =>
            /\ Count(newContent, Marker) = 0
            /\ Count(newContent, Replacement) =
                 Count(DecodedText(r), Replacement) + Count(DecodedText(r), Marker)
            /\ Decide(newContent, dryRun) = "NoMatch"
            /\ Decide(newContent, ~dryRun) = "NoMatch"
            /\ remote[r].pushed => remote[r].content = newContent

\* three occurrences, as fragments, were rewritten and pushed
C11_Witness ==
    \E r \in Repos :
        /\ Handed(r)
        /\ Count(DecodedText(r), Marker) = 3
        /\ remote[r].pushed
        /\ Count(remote[r].content, Replacement) = 3

(* ------------------------ rate limits of the crawl -------------------- *)
\* a response that reports remaining == 0 with the reset in the future
Exhausted(resp) == ~resp.nil /\ resp.remaining = 0 /\ resp.wait > 0

\* the crawl goes on after this step: it has not ended the run with an error
CrawlGoesOn == pc' \in {"probe", "retry", "list", "fetch"} \/ exitCode' = 0

C12_Step ==
    LET resp == lastCall'.resp
        failed == resp.err /\ ~(~resp.nil /\ resp.status = StatusNotFound)
    IN /\ (pc = "probe" /\ failed /\ Exhausted(resp)) =>
             /\ now' = now + resp.wait
             /\ pc' = "retry"
             /\ <<page', repoIdx', pathIdx'>> = <<page, repoIdx, pathIdx>>
       /\ pc = "retry" =>
             /\ lastCall'.repo = repos[repoIdx]
             /\ lastCall'.path = paths[pathIdx]
             /\ pc' # "retry"
       /\ (pc = "retry" /\ resp.err) =>
             /\ allRepos' = allRepos
             /\ ~(pc' = "probe" /\ page' = page /\ repoIdx' = repoIdx)
             /\ CrawlGoesOn

\* C12: a probe answered by a rate-limit-exhausted response is followed by a
\* wait and exactly one retry of the same candidate path; when the retry
\* fails too, no further candidate path of that repository is probed, the
\* repository is not added to the result, and the crawl goes on with the
\* next repository.
C12_RetryThenSkip == [][C12_Step]_vars

\* the positions of the crawl's API calls: page listing, probe, repeated probe
CrawlCallPcs == {"list", "probe", "retry"}

C13_Step ==
    (pc \in CrawlCallPcs /\ Exhausted(lastCall'.resp) /\ pc' # "exit") =>
        now' = now + lastCall'.resp.wait

\* C13: after every API call of the crawl (page listing or content probe;
\* answered with success, with 404 or with another failure) whose response
\* reports remaining == 0 with the reset in the future, the crawler waits
\* until the reset before it issues any further API call.
C13_WaitAfterEveryCall == [][C13_Step]_vars

\* a response that reports remaining == 0, the reset in the future or not
Depleted(resp) == ~resp.nil /\ resp.remaining = 0

C14_Step ==
    LET resp == lastCall'.resp
    IN /\ (pc = "list" /\ ~resp.err /\ Depleted(resp)) =>
             /\ pc' = "list"
             /\ page' = page
             /\ allRepos' = allRepos
       /\ (pc = "probe" /\ resp.err /\ resp.status # StatusNotFound /\ Depleted(resp)) =>
             /\ pc' = "retry"
             /\ <<page', repoIdx', pathIdx'>> = <<page, repoIdx, pathIdx>>

\* C14: whenever a response reports remaining == 0, also with the reset
\* already in the past (a wait of zero), the same operation is repeated: a
\* page listing is requested again at the same cursor, a failed probe is
\* repeated at the same candidate path, never skipped.
C14_RetryAlsoWhenResetPassed == [][C14_Step]_vars

(* ------------------------- order of the git steps --------------------- *)
\* the steps of one call of createSignedCommit, in order, for a signing key
StepsInOrder(key) ==
    <<"mkdtemp", "clone", "checkout -b", "write", "add">>
    \o (IF key = "" THEN <<"commit">> ELSE <<"config user.signingkey", "commit -S">>)
    \o <<"push">>

IsPrefix(s, t) == Len(s) <= Len(t) /\ \A i \in 1..Len(s) : s[i] = t[i]

\* the steps made so far are an initial part of the ordered steps
C15_Order == IsPrefix(gitLog, StepsInOrder(gpgKeyID))

\* a step of createSignedCommit makes exactly one entry; a failed step ends
\* the call, and the push has made the last entry when the call succeeds
C15_Step ==
    pc \in GitPcs \cup {"mkdtemp"} =>
        /\ Len(gitLog') = Len(gitLog) + 1
        /\ wf'[cur].outcome = "Aborted" => pc' \notin GitPcs \cup {"mkdtemp"}
        /\ wf'[cur].published > wf[cur].published =>
             gitLog' = StepsInOrder(gpgKeyID)

\* C15: createSignedCommit runs workspace creation, clone, branch checkout,
\* file write, stage, optional sign-config, commit, push in this order and
\* stops at the first failing step: a push only after a successful commit, at
\* most one commit and one push per call, the sign-config step if and only if
\* a signing key is given, the commit with -S if and only if that step ran.
C15_StepsInOrder == [](C15_Order) /\ [][C15_Step]_vars

\* a signed call went through to the push
C15_Witness ==
    /\ gpgKeyID # ""
    /\ cur # NoRepo
    /\ remote[cur].pushed
    /\ remote[cur].signed
    /\ gitLog = StepsInOrder(gpgKeyID)
    /\ Len(gitLog) = 8

(* ----------------------- base and head of the PR ---------------------- *)
ErrMeta == <<"error getting repository info">>

C16_Step ==
    /\ pc = "getmeta" =>
         /\ remote[cur].pushed
         /\ gitLog # <<>> /\ gitLog[Len(gitLog)] = "push"
         /\ wf[cur].metas = 0
         /\ wf[cur].prs = 0
         /\ lastCall'.resp.err =>
              /\ wf'[cur].outcome = "Aborted"
              /\ wf'[cur].err = ErrMeta
              /\ pc' # "createpr"
    /\ pc = "createpr" =>
         /\ lastCall.at = "getmeta"
         /\ lastCall.repo = cur
         /\ ~lastCall.resp.err
         /\ wf[cur].metas = 1
    /\ \A p \in pulls' \ pulls :
         /\ pc = "createpr"
         /\ p.repo = cur
         /\ p.head = remote[cur].branch
         /\ p.head = "update-renovate-config"
         /\ p.base = defaultBranch

\* a workflow whose metadata fetch failed has requested no pull request
C16_NoPrAfterFailedFetch ==
    \A r \in Repos : wf[r].err = ErrMeta => wf[r].prs = 0 /\ NoPullFor(r)

\* C16: after a successful push the workflow fetches the repository metadata
\* (after the push, before the pull-request call); the pull request's head is
\* the branch that was pushed, update-renovate-config, and its base is the
\* default branch that fetch returned, not the one of the repository object
\* the workflow was called with; if the fetch fails the workflow aborts and
\* requests no pull request.
C16_FreshBase == [](C16_NoPrAfterFailedFetch) /\ [][C16_Step]_vars

\* a pull request onto a default branch other than the listed one
C16_Witness ==
    \E p \in pulls :
        /\ p.base # ListedDefaultBranch
        /\ p.base = defaultBranch
        /\ p.head = remote[p.repo].branch
        /\ wf[p.repo].metas = 1

(* -------------------- crawl first, then the workflows ----------------- *)
\* a workflow has started or is about to make its first call
WorkflowStarted ==
    runs # <<>> \/ pc \notin CrawlPcs \cup {"main", "newclient", "exit"}

\* in an organization-wide run a workflow starts only when the crawl has
\* returned, every page listed and every listed repository probed
C17_CrawlFirst ==
    (repoName = NoRepo /\ WorkflowStarted) =>
        /\ \A k \in 1..Len(orgPages) : pageProbes[k] = 1
        /\ \A r \in Repos : Len(probes[r]) > 0
        /\ listCalls >= Len(orgPages)
        /\ \A i \in 1..Len(runs) : Occ(allRepos, runs[i]) = 1

\* a failed page listing, on whatever page, ends the run with nothing started
C17_Step ==
    (pc = "list" /\ lastCall'.resp.err) =>
        /\ pc' = "exit"
        /\ exitCode' = 1
        /\ runs' = <<>>
        /\ pulls' = {}
        /\ \A r \in Repos : wf'[r] = NoWf /\ ~remote'[r].pushed

\* C17: in an organization-wide run the crawl is completed before any
\* workflow starts; if a page listing fails on any page,
\* FindReposWithRenovate returns the error and no repository (what earlier
\* pages matched is discarded), and the run ends with no workflow, commit or
\* pull request started.
C17_ListErrorEndsRun == [](C17_CrawlFirst) /\ [][C17_Step]_vars

\* the listing of the second page failed after the first page had matches
C17_Witness ==
    /\ ListFailed
    /\ lastCall.page # 0
    /\ allRepos # <<>>
    /\ pc = "exit"
    /\ exitCode = 1
    /\ runs = <<>>

PcValues == {"main", "newclient", "get", "list", "probe", "retry", "fetch", "mkdtemp", "clone",
             "checkout", "write", "add", "config", "commit", "push", "getmeta",
             "createpr", "exit"}

TypeOK == pc \in PcValues
====
